---- MODULE Spec2Model ----
(***************************************************************************)
(* Model of jump/sshproxy.py: the inventory fetch with its login-user      *)
(* heuristic, the CSV cache policy of load_or_fetch_instances, the         *)
(* interactive selector loop and the nested-ssh connector.                 *)
(*                                                                         *)
(* Python strings are sequences of one-character strings, so that          *)
(* str.lower, str.strip, str.split, the `in` substring test and f-string   *)
(* formatting are computed rather than assumed.  Python None is the        *)
(* sentinel None below, which no string equals.                            *)
(***************************************************************************)
EXTENDS Integers, Sequences, FiniteSets, TLC

\* ------------------------------------------------------------------ bounds
\* Most instances one describe_instances response holds in Spec.
MaxInstances == 1

\* ----------------------------------------------------------- Python values
None == <<"<None>">>

\* bool(v) for a string or None: `not x`, `if x`, all([...]).
Truthy(v) == v /= None /\ v /= <<>>

\* str(v) inside an f-string.
Format(v) == IF v = None THEN <<"N", "o", "n", "e">> ELSE v

\* dict.get(key, default)
Get(d, key, default) == IF key \in DOMAIN d THEN d[key] ELSE default

UpperLetters ==
  <<"A","B","C","D","E","F","G","H","I","J","K","L","M",
    "N","O","P","Q","R","S","T","U","V","W","X","Y","Z">>

LowerLetters ==
  <<"a","b","c","d","e","f","g","h","i","j","k","l","m",
    "n","o","p","q","r","s","t","u","v","w","x","y","z">>

LowerChar(c) ==
  IF \E i \in DOMAIN UpperLetters : UpperLetters[i] = c
  THEN LowerLetters[CHOOSE i \in DOMAIN UpperLetters : UpperLetters[i] = c]
  ELSE c

\* str.lower()
Lower(s) == [i \in 1..Len(s) |-> LowerChar(s[i])]

Whitespace == {" ", "\t", "\n"}

RECURSIVE LStrip(_)
LStrip(s) ==
  IF s /= <<>> /\ Head(s) \in Whitespace THEN LStrip(Tail(s)) ELSE s

RECURSIVE RStrip(_)
RStrip(s) ==
  IF s /= <<>> /\ s[Len(s)] \in Whitespace
  THEN RStrip(SubSeq(s, 1, Len(s) - 1))
  ELSE s

\* str.strip()
Strip(s) == RStrip(LStrip(s))

\* `sub in s` for strings
Contains(sub, s) ==
  \E i \in 0..(Len(s) - Len(sub)) : SubSeq(s, i + 1, i + Len(sub)) = sub

\* s.split('_')[0]: the text before the first underscore.
RECURSIVE SplitFirst(_)
SplitFirst(s) ==
  IF s = <<>> \/ Head(s) = "_" THEN <<>> ELSE <<Head(s)>> \o SplitFirst(Tail(s))

Digits == <<"0","1","2","3","4","5","6","7","8","9">>

\* str(n) for n >= 0
RECURSIVE IntToStr(_)
IntToStr(n) ==
  IF n < 10 THEN <<Digits[n + 1]>>
  ELSE IntToStr(n \div 10) \o <<Digits[(n % 10) + 1]>>

\* ------------------------------------------------------- string literals
sNA            == <<"N","/","A">>
sUbuntu        == <<"u","b","u","n","t","u">>
sWindows       == <<"w","i","n","d","o","w","s">>
sCentos        == <<"c","e","n","t","o","s">>
sRhel          == <<"r","h","e","l">>
sFedora        == <<"f","e","d","o","r","a">>
sAmzn2         == <<"a","m","z","n","2">>
sAmazonLinux2  == <<"a","m","a","z","o","n"," ","l","i","n","u","x"," ","2">>
sAmazonLinuxAmi ==
  <<"a","m","a","z","o","n"," ","l","i","n","u","x"," ","a","m","i">>
sAmznAmi       == <<"a","m","z","n","-","a","m","i">>
sEc2User       == <<"e","c","2","-","u","s","e","r">>
sAdministrator == <<"A","d","m","i","n","i","s","t","r","a","t","o","r">>
sLinuxUnix     == <<"L","i","n","u","x","/","U","N","I","X">>
sExit          == <<"e","x","i","t">>
sQuit          == <<"q","u","i","t">>
sRefresh       == <<"r","e","f","r","e","s","h">>
sList          == <<"l","i","s","t">>

\* ------------------------------------------- get_running_ec2_instances
\* A response of the compute API, as the function sees it:
\*   instErr   - boto3.client / describe_instances raises
\*   instances - the instances of all reservations, in response order; each a
\*               dict whose keys may be missing
\*   imgErr    - describe_images raises
\*   images    - the Images list of describe_images

\* The platform-based first guess of the login user.
CoarseUser(platform_details) ==
  IF Contains(sUbuntu, Lower(platform_details)) THEN sUbuntu
  ELSE IF Contains(sWindows, Lower(platform_details)) THEN sAdministrator
  ELSE sEc2User

\* The value of the first tag whose key is Name, else N/A.
RECURSIVE InstanceName(_)
InstanceName(tags) ==
  IF tags = <<>> THEN sNA
  ELSE IF Head(tags).Key = "Name" THEN Head(tags).Value
  ELSE InstanceName(Tail(tags))

InstanceData(instance) ==
  LET image_id         == Get(instance, "ImageId", None)
      platform_details == Get(instance, "PlatformDetails", sLinuxUnix)
  IN  [InstanceId       |-> Get(instance, "InstanceId", None),
       Name             |-> InstanceName(Get(instance, "Tags", <<>>)),
       PrivateIpAddress |-> Get(instance, "PrivateIpAddress", None),
       KeyName          |-> Get(instance, "KeyName", sNA),
       TargetUser       |-> CoarseUser(platform_details),
       PlatformDetails  |-> platform_details,
       ImageId          |-> IF Truthy(image_id) THEN image_id ELSE sNA,
       ImageName        |-> sNA]

\* The set image_ids collected while walking the instances.
ImageIds(instances) ==
  {Get(instances[i], "ImageId", None) : i \in DOMAIN instances} \ {None, <<>>}

\* ami_info_map: for each image id of the lookup's answer, the Name and
\* Description of the last image carrying it ('' when the key is missing).
AmiInfoMap(images) ==
  LET ids == {images[i].ImageId : i \in DOMAIN images}
      last(id) == images[CHOOSE i \in DOMAIN images :
                    /\ images[i].ImageId = id
                    /\ \A j \in DOMAIN images : images[j].ImageId = id => j <= i]
  IN  [id \in ids |-> [Name        |-> Get(last(id), "Name", <<>>),
                       Description |-> Get(last(id), "Description", <<>>)]]

\* Faulty variant: a refinement pass that yields to a platform guess already made.
RefineUserCoarseFirst(target_user, ami_name, ami_desc) ==
  IF target_user /= sEc2User THEN target_user
  ELSE IF Contains(sUbuntu, ami_name) \/ Contains(sUbuntu, ami_desc) THEN sUbuntu
  ELSE IF Contains(sCentos, ami_name) \/ Contains(sCentos, ami_desc) THEN sCentos
  ELSE IF Contains(sFedora, ami_name) \/ Contains(sFedora, ami_desc) THEN sFedora
  ELSE target_user

\* The keyword chain applied to the lowercased image name and description;
\* target_user is the value the record holds before the chain.
RefineUser(target_user, ami_name, ami_desc) ==
  IF Contains(sUbuntu, ami_name) \/ Contains(sUbuntu, ami_desc) THEN sUbuntu
  ELSE IF Contains(sCentos, ami_name) \/ Contains(sCentos, ami_desc) THEN sCentos
  ELSE IF Contains(sRhel, ami_name) \/ Contains(sRhel, ami_desc) THEN sEc2User
  ELSE IF Contains(sFedora, ami_name) \/ Contains(sFedora, ami_desc) THEN sFedora
  ELSE IF Contains(sAmzn2, ami_name) \/ Contains(sAmazonLinux2, ami_desc)
       THEN sEc2User
  ELSE IF Contains(sAmazonLinuxAmi, ami_name) \/ Contains(sAmznAmi, ami_name)
       THEN sEc2User
  ELSE target_user

RefineInstance(instance, ami_info_map) ==
  LET img_id == instance.ImageId
  IN  IF img_id \in DOMAIN ami_info_map
      THEN [instance EXCEPT
              !.ImageName  = ami_info_map[img_id].Name,
              !.TargetUser = RefineUser(instance.TargetUser,
                                        Lower(ami_info_map[img_id].Name),
                                        Lower(ami_info_map[img_id].Description))]
      ELSE instance

\* Faulty variant: a fetch whose image lookup error reaches the outer
\* handler, which returns the empty list.
GetRunningImageErrorFatal(resp) ==
  IF resp.instErr \/ (ImageIds(resp.instances) /= {} /\ resp.imgErr) THEN <<>>
  ELSE
    LET instances_list ==
          [i \in DOMAIN resp.instances |-> InstanceData(resp.instances[i])]
    IN  IF ImageIds(resp.instances) = {}
        THEN instances_list
        ELSE [i \in DOMAIN instances_list |->
                RefineInstance(instances_list[i], AmiInfoMap(resp.images))]

GetRunningEc2Instances(resp) ==
  IF resp.instErr THEN <<>>
  ELSE
    LET instances_list ==
          [i \in DOMAIN resp.instances |-> InstanceData(resp.instances[i])]
    IN  IF ImageIds(resp.instances) = {} \/ resp.imgErr
        THEN instances_list
        ELSE [i \in DOMAIN instances_list |->
                RefineInstance(instances_list[i], AmiInfoMap(resp.images))]

\* ------------------------------------------------------------ cache file
\* The file at csv_filename: whether it exists, whether reading it succeeds
\* (open and decode without an exception), its first non-blank row and the
\* rows after it.  An empty file has no header and no rows.
FieldNames ==
  <<"InstanceId", "Name", "PrivateIpAddress", "KeyName", "TargetUser",
    "PlatformDetails", "ImageId", "ImageName">>

Absent == [exists |-> FALSE, readable |-> TRUE, header |-> <<>>, rows |-> <<>>]

EmptyFile == [exists |-> TRUE, readable |-> TRUE, header |-> <<>>, rows |-> <<>>]

\* csv.writer writes None as the empty string.
CsvCell(v) == IF v = None THEN <<>> ELSE v

\* DictWriter(fieldnames = running_instances[0].keys()): writeheader, writerows.
CsvFile(records) ==
  LET header == FieldNames
  IN  [exists   |-> TRUE,
       readable |-> TRUE,
       header   |-> header,
       rows     |-> [i \in DOMAIN records |->
                       [j \in DOMAIN header |-> CsvCell(records[i][header[j]])]]]

\* list(csv.DictReader(f)): blank rows are skipped, a short row is padded
\* with None; every value read is a string.
DictRows(file) ==
  LET rows == SelectSeq(file.rows, LAMBDA r : r /= <<>>)
      keys == {file.header[j] : j \in DOMAIN file.header}
      col(k) == CHOOSE j \in DOMAIN file.header :
                  /\ file.header[j] = k
                  /\ \A m \in DOMAIN file.header : file.header[m] = k => m <= j
  IN  [i \in DOMAIN rows |->
         [k \in keys |-> IF col(k) <= Len(rows[i]) THEN rows[i][col(k)] ELSE None]]

\* Faulty variant: a cache read that hands back whatever rows the file has,
\* needing no refetch even when there are none.
LoadPhaseNoRefetch(force_fetch, file) ==
  IF ~force_fetch /\ file.exists
  THEN [running_instances |-> IF file.readable /\ file.header /= <<>>
                              THEN DictRows(file) ELSE <<>>,
        fetch_from_aws    |-> FALSE,
        raised            |-> FALSE]
  ELSE [running_instances |-> <<>>, fetch_from_aws |-> TRUE, raised |-> FALSE]

\* Faulty variant: a cache read that refetches whatever the file holds.
LoadPhaseAlwaysFetch(force_fetch, file) ==
  [running_instances |-> <<>>, fetch_from_aws |-> TRUE, raised |-> FALSE]

\* The first half of load_or_fetch_instances: what is loaded from the cache
\* and whether the inventory source is to be asked.  running_instances = None
\* of the source is the empty list here with fetch_from_aws set; raised tells
\* whether an exception leaves the function.
LoadPhase(force_fetch, file) ==
  IF ~force_fetch /\ file.exists
  THEN LET loaded == IF ~file.readable THEN <<>>          \* except: None
                     ELSE IF file.header = <<>> THEN <<>> \* no fieldnames: None
                     ELSE DictRows(file)
       IN  [running_instances |-> loaded,
            fetch_from_aws    |-> (loaded = <<>>),
            raised            |-> FALSE]
  ELSE [running_instances |-> <<>>, fetch_from_aws |-> TRUE, raised |-> FALSE]

\* The files a failed write can leave: the old one when open() fails, or a
\* truncated one holding the header and the first rows when a write fails.
PartialFiles(records) ==
  {EmptyFile} \cup
  {[CsvFile(records) EXCEPT !.rows = SubSeq(@, 1, n)] : n \in 0..(Len(records) - 1)}

\* The second half of load_or_fetch_instances after the fetch returned result:
\* the set of files it can leave.  io is what the file system does:
\* "ok", "open_fails" (IOError from open), "write_fails" (IOError while
\* writing), "remove_fails" (OSError from os.remove).
StoreResult(file, result, io) ==
  IF result /= <<>>
  THEN CASE io = "open_fails"  -> {file}
         [] io = "write_fails" -> PartialFiles(result)
         [] OTHER              -> {CsvFile(result)}
  ELSE IF file.exists /\ io /= "remove_fails" THEN {Absent} ELSE {file}

\* -------------------------------------------------------------- selector
\* choice_str of the record at 1-based position p (enumerate index p - 1).
ChoiceStr(p, inst) ==
  <<"[">> \o IntToStr(p) \o <<"]", " ">> \o Format(Get(inst, "Name", sNA))
    \o <<" ", "(">> \o Format(Get(inst, "InstanceId", sNA)) \o <<")">>

\* instance_map.get(user_input): positions of the records whose label is the
\* input; a later record with the same label replaces an earlier one.
MatchingPositions(instances, user_input) ==
  {p \in DOMAIN instances : ChoiceStr(p, instances[p]) = user_input}

Max(S) == CHOOSE x \in S : \A y \in S : y <= x

jump_host_ip        == <<"1","7","2",".","3","1",".","1","2",".","7","6">>
jump_host_user      == sEc2User
local_jump_key_path ==
  <<"~","/",".","s","s","h","/","i","d","_","e","d","2","5","5","1","9">>
remote_key_dir      ==
  <<"/","h","o","m","e","/","e","c","2","-","u","s","e","r","/","k","e","y","s","/">>
pem_suffix          == <<".","p","e","m">>

\* key_name_base and remote_target_key_path of the selection branch.
RemoteTargetKeyPath(raw_key_name) ==
  LET key_name_base == IF Truthy(raw_key_name) /\ raw_key_name /= sNA
                       THEN SplitFirst(raw_key_name) ELSE None
  IN  IF Truthy(key_name_base)
      THEN remote_key_dir \o key_name_base \o pem_suffix
      ELSE None

\* The six arguments the selection branch passes to ssh_via_jump_host.
SshArgs(selected_instance) ==
  [target_ip              |-> Get(selected_instance, "PrivateIpAddress", None),
   target_user            |-> Get(selected_instance, "TargetUser", None),
   jump_host_ip           |-> jump_host_ip,
   jump_host_user         |-> jump_host_user,
   local_jump_key_path    |-> local_jump_key_path,
   remote_target_key_path |->
     RemoteTargetKeyPath(Get(selected_instance, "KeyName", <<>>))]

NoArgs ==
  [target_ip |-> None, target_user |-> None, jump_host_ip |-> None,
   jump_host_user |-> None, local_jump_key_path |-> None,
   remote_target_key_path |-> None]

\* Faulty variant: a selection that only needs an address before it connects.
ConnectDecisionAddressOnly(selected_instance, key_exists) ==
  IF Truthy(SshArgs(selected_instance).target_ip) THEN "spawn" ELSE "no_ip"

\* What selecting a record comes to: one of the three refusals of the
\* selection branch, one of the two refusals of ssh_via_jump_host, or the
\* subprocess call.
ConnectDecision(selected_instance, key_exists) ==
  LET a == SshArgs(selected_instance)
  IN  IF ~Truthy(a.target_ip) THEN "no_ip"
      ELSE IF ~Truthy(a.target_user) THEN "no_user"
      ELSE IF ~Truthy(a.remote_target_key_path) THEN "no_remote_key"
      ELSE IF ~(/\ Truthy(a.target_ip) /\ Truthy(a.target_user)
                /\ Truthy(a.jump_host_ip) /\ Truthy(a.jump_host_user)
                /\ Truthy(a.local_jump_key_path)
                /\ Truthy(a.remote_target_key_path)) THEN "missing_params"
      ELSE IF ~key_exists THEN "no_local_key"
      ELSE "spawn"

\* Faulty variant: a dispatch that compares the command words without
\* lowering the input.
CommandOfCaseSensitive(user_input, instances) ==
  IF user_input = <<>> THEN "empty"
  ELSE IF user_input \in {sExit, sQuit} THEN "exit"
  ELSE IF user_input = sRefresh THEN "refresh"
  ELSE IF user_input = sList THEN "list"
  ELSE IF MatchingPositions(instances, user_input) /= {} THEN "select"
  ELSE "unknown"

\* Faulty variant: a dispatch that looks the lowered input up in instance_map.
CommandOfLoweredLookup(user_input, instances) ==
  IF user_input = <<>> THEN "empty"
  ELSE IF Lower(user_input) \in {sExit, sQuit} THEN "exit"
  ELSE IF Lower(user_input) = sRefresh THEN "refresh"
  ELSE IF Lower(user_input) = sList THEN "list"
  ELSE IF MatchingPositions(instances, Lower(user_input)) /= {} THEN "select"
  ELSE "unknown"

\* Faulty variant: a dispatch in which unrecognized text leaves the loop.
CommandOfUnknownExits(user_input, instances) ==
  IF user_input = <<>> THEN "empty"
  ELSE IF Lower(user_input) \in {sExit, sQuit} THEN "exit"
  ELSE IF Lower(user_input) = sRefresh THEN "refresh"
  ELSE IF Lower(user_input) = sList THEN "list"
  ELSE IF MatchingPositions(instances, user_input) /= {} THEN "select"
  ELSE "exit"

\* The branch of the loop body taken for the stripped input.
CommandOf(user_input, instances) ==
  IF user_input = <<>> THEN "empty"
  ELSE IF Lower(user_input) \in {sExit, sQuit} THEN "exit"
  ELSE IF Lower(user_input) = sRefresh THEN "refresh"
  ELSE IF Lower(user_input) = sList THEN "list"
  ELSE IF MatchingPositions(instances, user_input) /= {} THEN "select"
  ELSE "unknown"

\* ------------------------------------------------------ model inputs
\* Two instances of a describe_instances answer: one complete, one with
\* every optional key missing.
RawInstancePool ==
  << [InstanceId       |-> <<"i","1">>,
      Tags             |-> <<[Key |-> "Env", Value |-> <<"p">>],
                             [Key |-> "Name", Value |-> <<"w","e","b">>]>>,
      PrivateIpAddress |-> <<"1","0",".","1">>,
      KeyName          |-> <<"k","_","p">>,
      PlatformDetails  |-> sLinuxUnix,
      ImageId          |-> <<"a","1">>],
     [InstanceId       |-> <<"i","2">>,
      PlatformDetails  |-> <<"W","i","n","d","o","w","s">>] >>

PoolImages ==
  << [ImageId |-> <<"a","1">>, Name |-> <<"U","b","u","n","t","u","-","2","2">>,
      Description |-> <<>>] >>

RECURSIVE SeqsUpTo(_, _)
SeqsUpTo(S, n) ==
  IF n = 0 THEN {<<>>}
  ELSE SeqsUpTo(S, n - 1) \cup
       {Append(q, x) : q \in {r \in SeqsUpTo(S, n - 1) : Len(r) = n - 1}, x \in S}

Responses ==
  {[instErr |-> TRUE, instances |-> <<>>, imgErr |-> FALSE, images |-> <<>>]} \cup
  {[instErr |-> FALSE, instances |-> [i \in DOMAIN q |-> RawInstancePool[q[i]]],
    imgErr |-> e, images |-> PoolImages] :
     q \in SeqsUpTo(DOMAIN RawInstancePool, MaxInstances), e \in BOOLEAN}

cSelectable ==
  <<<<"i","7">>, <<"a","p","p">>, <<"1","0",".","7">>, <<"m","y","k","e","y">>,
    sUbuntu, sLinuxUnix, <<"a","7">>, <<"u","2","2">>>>

cNoKeyNoUser ==
  <<<<"i","8">>, <<"o","l","d">>, <<"1","0",".","8">>, <<>>, <<>>, sLinuxUnix,
    <<"a","8">>, sNA>>

cNAKey ==
  <<<<"i","9">>, <<"n","a">>, <<"1","0",".","9">>, sNA, sEc2User, sLinuxUnix,
    <<"a","9">>, sNA>>

cUnderscoreKey ==
  <<<<"i","6">>, <<"d","b">>, <<"1","0",".","6">>, <<"_","x">>, sEc2User,
    sLinuxUnix, <<"a","6">>, sNA>>

\* What may lie at csv_filename when the program starts.
InitialFiles ==
  { Absent,
    EmptyFile,
    [EmptyFile EXCEPT !.header = FieldNames],
    [EmptyFile EXCEPT !.header = FieldNames, !.rows = <<cSelectable>>],
    [EmptyFile EXCEPT !.header = FieldNames,
                      !.rows = <<cNoKeyNoUser, <<>>, cNAKey>>],
    [EmptyFile EXCEPT !.header = FieldNames,
                      !.rows = <<cSelectable, cUnderscoreKey>>],
    [EmptyFile EXCEPT !.header = FieldNames,
                      !.rows = <<SubSeq(cSelectable, 1, 3)>>],
    [EmptyFile EXCEPT !.header = <<"Foo", "Bar">>,
                      !.rows = <<<<<<"1">>, <<"2">>>>>>],
    [EmptyFile EXCEPT !.readable = FALSE] }

CommandTexts ==
  { <<>>, <<" ">>,
    sExit, <<" ","Q","u","i","t"," ">>,
    <<"R","e","f","r","e","s","h"," ">>,
    sList, <<" ","L","I","S","T">>,
    <<"h","e","l","p">>, <<"[","9","]"," ","x"," ","(","y",")">> }

\* What the user may type: a command, other text, or a label the completer
\* offers for the current inventory, as shown or padded with blanks.
TypedTexts(instances) ==
  CommandTexts
    \cup {ChoiceStr(p, instances[p]) : p \in DOMAIN instances}
    \cup {<<" ">> \o ChoiceStr(p, instances[p]) \o <<" ">> : p \in DOMAIN instances}

\* ----------------------------------------------------------------- state
VARIABLES
  pc,                 \* Start, Fetching, Ready, Connecting, Terminated, Crashed,
                      \* and FetchInput, FetchDone of SpecFetch
  running_instances,  \* the in-memory inventory of the main loop
  cacheFile,          \* the file at csv_filename
  localKeyExists,     \* os.path.exists of the expanded local key path
  call,               \* the current or last load_or_fetch_instances call
  fetched,            \* what get_running_ec2_instances last returned
  last,               \* the last event of the selector loop
  conn,               \* the arguments of the ssh call in progress
  response            \* SpecFetch: the API answer given to the fetch

vars == <<pc, running_instances, cacheFile, localKeyExists, call, fetched,
          last, conn, response>>

NoCall ==
  [caller |-> "none", force |-> FALSE, fileBefore |-> Absent, fetches |-> 0,
   outcome |-> "none"]

NoEvent == [event |-> "none", text |-> <<>>, pos |-> 0, decision |-> "none",
            outcome |-> "none"]

NoResponse ==
  [instErr |-> TRUE, instances |-> <<>>, imgErr |-> FALSE, images |-> <<>>]

Init ==
  /\ pc = "Start"
  /\ running_instances = <<>>
  /\ cacheFile \in InitialFiles
  /\ localKeyExists \in BOOLEAN
  /\ call = NoCall
  /\ fetched = <<>>
  /\ last = NoEvent
  /\ conn = NoArgs
  /\ response = NoResponse

\* ---------------------------------------------------------------- actions
\* running_instances = load_or_fetch_instances() before the loop, up to the
\* point where the inventory source is asked.
StartLoad ==
  /\ pc = "Start"
  /\ \E r \in {LoadPhase(FALSE, cacheFile)} :
         /\ call' = [caller |-> "startup", force |-> FALSE,
                     fileBefore |-> cacheFile, fetches |-> 0,
                     outcome |-> IF r.raised THEN "raised"
                                 ELSE IF r.fetch_from_aws THEN "pending"
                                 ELSE "loaded"]
         /\ pc' = IF r.raised THEN "Crashed"
                  ELSE IF r.fetch_from_aws THEN "Fetching" ELSE "Ready"
         /\ running_instances' =
              IF r.raised \/ r.fetch_from_aws THEN running_instances
              ELSE r.running_instances
  /\ UNCHANGED <<cacheFile, localKeyExists, fetched, last, conn, response>>

\* get_running_ec2_instances returns and load_or_fetch_instances saves the
\* result or removes the cache file, then returns to its caller.
FetchReturns ==
  /\ pc = "Fetching"
  /\ \E resp \in Responses,
        io \in {"ok", "open_fails", "write_fails", "remove_fails"} :
       \E result \in {GetRunningEc2Instances(resp)} :
           /\ io \in (IF result /= <<>>
                      THEN {"ok", "open_fails", "write_fails"}
                      ELSE IF cacheFile.exists THEN {"ok", "remove_fails"}
                      ELSE {"ok"})
           /\ fetched' = result
           /\ running_instances' = result
           /\ cacheFile' \in StoreResult(cacheFile, result, io)
           /\ call' = [call EXCEPT !.fetches = @ + 1, !.outcome = "fetched"]
  /\ pc' = "Ready"
  /\ UNCHANGED <<localKeyExists, last, conn, response>>

\* KeyboardInterrupt while the fetch is in progress: no handler inside
\* get_running_ec2_instances or load_or_fetch_instances catches it.  From
\* the call before the loop it leaves the program; from the refresh branch
\* the loop's handler catches it and the assignment never happens.
FetchInterrupted ==
  /\ pc = "Fetching"
  /\ pc' = IF call.caller = "startup" THEN "Crashed" ELSE "Ready"
  /\ call' = [call EXCEPT !.outcome = "interrupted"]
  /\ UNCHANGED <<running_instances, cacheFile, localKeyExists, fetched, last,
                 conn, response>>

\* One pass of the loop body for a line read by prompt().
Prompt ==
  /\ pc = "Ready"
  /\ \E text \in TypedTexts(running_instances) :
     \E user_input \in {Strip(text)} :
     \E cmd \in {CommandOf(user_input, running_instances)} :
     \E pos \in {IF cmd = "select"
                 THEN Max(MatchingPositions(running_instances, user_input))
                 ELSE 0} :
     \E decision \in {IF cmd = "select"
                      THEN ConnectDecision(running_instances[pos], localKeyExists)
                      ELSE "none"} :
           /\ last' = [event |-> cmd, text |-> text, pos |-> pos,
                       decision |-> decision,
                       outcome |-> IF decision = "spawn" THEN "pending" ELSE "none"]
           /\ pc' = CASE cmd = "exit"     -> "Terminated"
                      [] cmd = "refresh"  -> "Fetching"
                      [] decision = "spawn" -> "Connecting"
                      [] OTHER            -> "Ready"
           /\ call' = IF cmd = "refresh"
                      THEN [caller |-> "refresh", force |-> TRUE,
                            fileBefore |-> cacheFile, fetches |-> 0,
                            outcome |-> "pending"]
                      ELSE call
           /\ conn' = IF decision = "spawn"
                      THEN SshArgs(running_instances[pos]) ELSE conn
  /\ UNCHANGED <<running_instances, cacheFile, localKeyExists, fetched, response>>

\* KeyboardInterrupt raised by prompt().
PromptInterrupt ==
  /\ pc = "Ready"
  /\ last' = [NoEvent EXCEPT !.event = "interrupt"]
  /\ UNCHANGED <<pc, running_instances, cacheFile, localKeyExists, call,
                 fetched, conn, response>>

\* EOFError raised by prompt().
PromptEof ==
  /\ pc = "Ready"
  /\ last' = [NoEvent EXCEPT !.event = "eof"]
  /\ pc' = "Terminated"
  /\ UNCHANGED <<running_instances, cacheFile, localKeyExists, call, fetched,
                 conn, response>>

\* subprocess.run(ssh_command) ends: exit code 0, another exit code,
\* FileNotFoundError, or any other exception.
SshReturns ==
  /\ pc = "Connecting"
  /\ \E outcome \in {"zero", "nonzero", "not_found", "error"} :
       last' = [last EXCEPT !.outcome = outcome]
  /\ pc' = "Ready"
  /\ conn' = NoArgs
  /\ UNCHANGED <<running_instances, cacheFile, localKeyExists, call, fetched,
                 response>>

\* KeyboardInterrupt while subprocess.run waits: run() kills the child and
\* re-raises, and the loop's handler catches it.
SshInterrupted ==
  /\ pc = "Connecting"
  /\ last' = [last EXCEPT !.outcome = "interrupted"]
  /\ pc' = "Ready"
  /\ conn' = NoArgs
  /\ UNCHANGED <<running_instances, cacheFile, localKeyExists, call, fetched,
                 response>>

Next ==
  \/ StartLoad
  \/ FetchReturns
  \/ FetchInterrupted
  \/ Prompt
  \/ PromptInterrupt
  \/ PromptEof
  \/ SshReturns
  \/ SshInterrupted

Spec == Init /\ [][Next]_vars

\* ------------------------------------------ the fetch on its own inputs
\* SpecFetch applies get_running_ec2_instances to one API answer drawn from
\* platform descriptions, image names and image descriptions that hit and
\* miss each keyword of the heuristic.
FetchPlatforms ==
  { None, sLinuxUnix, <<"W","i","n","d","o","w","s">>,
    <<"U","b","u","n","t","u"," ","P","r","o">>,
    <<"R","e","d"," ","H","a","t">> }

FetchImageNames ==
  { None, <<>>,
    <<"U","b","u","n","t","u","-","2","2">>,
    <<"C","e","n","t","O","S","-","7">>,
    <<"R","H","E","L","-","9">>,
    <<"F","e","d","o","r","a">>,
    <<"a","m","z","n","2","-","a","m","i">>,
    <<"a","m","z","n","-","a","m","i","-","h","v","m">>,
    <<"A","m","a","z","o","n"," ","L","i","n","u","x"," ","A","M","I">>,
    <<"A","m","a","z","o","n"," ","L","i","n","u","x"," ","2">>,
    <<"D","e","b","i","a","n">> }

FetchImageDescriptions ==
  { None, <<>>,
    <<"U","B","U","N","T","U"," ","L","T","S">>,
    <<"c","e","n","t","o","s">>,
    <<"r","h","e","l">>,
    <<"A","m","a","z","o","n"," ","L","i","n","u","x"," ","2">>,
    <<"a","m","z","n","2">>,
    <<"a","m","z","n","-","a","m","i">> }

\* A dict with the keys whose value is given (None: the key is missing).
WithKey(d, key, v) ==
  IF v = None THEN d
  ELSE [k \in DOMAIN d \cup {key} |-> IF k = key THEN v ELSE d[k]]

FetchInstance(platform, image_id) ==
  WithKey(WithKey([InstanceId |-> <<"i","5">>, KeyName |-> <<"k">>],
                  "PlatformDetails", platform),
          "ImageId", image_id)

FetchImage(name, desc) ==
  WithKey(WithKey([ImageId |-> <<"a","5">>], "Name", name), "Description", desc)

FetchResponses ==
  {[instErr |-> FALSE, imgErr |-> FALSE,
    instances |-> <<RawInstancePool[1], FetchInstance(pl, <<"a","5">>)>>,
    images |-> <<PoolImages[1], FetchImage(n, d)>>] :
      pl \in FetchPlatforms, n \in FetchImageNames, d \in FetchImageDescriptions}
  \cup
  {[instErr |-> ie, imgErr |-> e,
    instances |-> <<FetchInstance(pl, id)>>,
    images |-> imgs] :
      ie \in BOOLEAN, e \in BOOLEAN, pl \in FetchPlatforms,
      id \in {None, <<"a","5">>},
      imgs \in {<<>>, <<FetchImage(sUbuntu, <<>>)>>}}

InitFetch ==
  /\ pc = "FetchInput"
  /\ response \in FetchResponses
  /\ running_instances = <<>>
  /\ cacheFile = Absent
  /\ localKeyExists = FALSE
  /\ call = NoCall
  /\ fetched = <<>>
  /\ last = NoEvent
  /\ conn = NoArgs

\* get_running_ec2_instances(region_name) on the answer in response.
FetchCall ==
  /\ pc = "FetchInput"
  /\ fetched' = GetRunningEc2Instances(response)
  /\ pc' = "FetchDone"
  /\ UNCHANGED <<running_instances, cacheFile, localKeyExists, call, last,
                 conn, response>>

NextFetch == FetchCall

SpecFetch == InitFetch /\ [][NextFetch]_vars

\* ================================================================ claims
\* The call before the loop, and the file it found.
StartupCall == call.caller = "startup"

\* The file is present, readable, has a header and at least one data row.
HasDataRows(f) ==
  /\ f.exists /\ f.readable /\ f.header /= <<>>
  /\ \E i \in DOMAIN f.rows : f.rows[i] /= <<>>

\* The file is absent, or empty, or holds a header and no data row.
AbsentEmptyOrHeaderOnly(f) ==
  \/ ~f.exists
  \/ f.readable /\ \A i \in DOMAIN f.rows : f.rows[i] = <<>>

\* C1: once a forced refresh has been handled, the cache file is either gone
\* or holds exactly the records just fetched, which are the in-memory
\* inventory; no older file stays beside a newer inventory.
C1_RefreshLeavesNoStaleCache ==
  (pc = "Ready" /\ call.caller = "refresh" /\ call.outcome = "fetched")
    => \/ ~cacheFile.exists
       \/ /\ running_instances = fetched
          /\ cacheFile.exists /\ cacheFile.readable
          /\ cacheFile.header = FieldNames
          /\ Len(cacheFile.rows) = Len(fetched)
          /\ \A i \in DOMAIN fetched : \A j \in DOMAIN FieldNames :
               cacheFile.rows[i][j] = CsvCell(fetched[i][FieldNames[j]])

\* C2: an unforced load that finds the cache file absent, empty or with a
\* header and no data row raises nothing, never returns what it read, and
\* asks the inventory source exactly once, whose answer becomes the inventory.
C2_NoRowsMeansOneFetch ==
  (StartupCall /\ AbsentEmptyOrHeaderOnly(call.fileBefore))
    => /\ call.outcome \in {"pending", "fetched", "interrupted"}
       /\ (call.outcome = "pending" => pc = "Fetching" /\ call.fetches = 0)
       /\ (call.outcome = "fetched" =>
             /\ call.fetches = 1
             /\ running_instances = fetched
             /\ pc /= "Crashed")

C2_Witness ==
  /\ StartupCall /\ pc = "Ready" /\ call.outcome = "fetched"
  /\ call.fileBefore.exists /\ call.fileBefore.header = FieldNames
  /\ call.fileBefore.rows = <<>>
  /\ running_instances /= <<>>

\* C3: an unforced load of a cache file with at least one data row returns
\* the file's rows in file order, asks the inventory source nothing and
\* leaves the file as it was; the source is asked only after a forced
\* refresh or a load that yielded no records.
C3_RowsAreLoadedUntouched ==
  /\ (StartupCall /\ HasDataRows(call.fileBefore)) =>
       LET f    == call.fileBefore
           data == SelectSeq(f.rows, LAMBDA r : r /= <<>>)
       IN  /\ call.outcome = "loaded"
           /\ call.fetches = 0
           /\ pc \notin {"Fetching", "Crashed"}
           /\ cacheFile = f
           /\ Len(running_instances) = Len(data)
           /\ \A i \in DOMAIN data : \A j \in DOMAIN data[i] :
                running_instances[i][f.header[j]] = data[i][j]
  /\ pc = "Fetching" => call.force \/ ~HasDataRows(call.fileBefore)

C3_Witness ==
  /\ StartupCall /\ pc = "Ready" /\ call.outcome = "loaded"
  /\ Len(running_instances) = 2
  /\ running_instances[1].InstanceId /= running_instances[2].InstanceId
  /\ last.event = "list"

\* C4: a cache file whose content is anything but a table headed by the
\* InstanceRecord fields is treated as absent by the load, which refetches
\* and never returns the content as the inventory.
C4_MalformedCacheIsRefetched ==
  (StartupCall /\ call.fileBefore.exists
     /\ ~(call.fileBefore.readable /\ call.fileBefore.header = FieldNames))
    => call.outcome /= "loaded"

\* A step of the loop body on a line of text (not an interrupt, not end of
\* input); user_input of that step is UserInput'.
TextStep == pc = "Ready" /\ last'.event \notin {"interrupt", "eof"}

UserInput == Strip(last.text)

\* C5: the input list in any letter case, and the empty input, with
\* surrounding blanks stripped, take the list branch or the no-op branch:
\* the loop stays in Ready, the inventory and the cache file are unchanged,
\* nothing is fetched and no subprocess is started.
C5_ListAndEmptyChangeNothing ==
  [][ (TextStep /\ (UserInput' = <<>> \/ Lower(UserInput') = sList))
        => /\ pc' = "Ready"
           /\ last'.event = (IF UserInput' = <<>> THEN "empty" ELSE "list")
           /\ last'.decision = "none"
           /\ UNCHANGED <<running_instances, cacheFile, call, fetched, conn>>
    ]_vars

C5_Witness ==
  /\ pc = "Ready" /\ last.event = "list"
  /\ last.text = <<" ","L","I","S","T">>
  /\ running_instances = <<>>

InLoop ==
  \/ pc \in {"Ready", "Connecting"}
  \/ pc = "Fetching" /\ call.caller = "refresh"

\* C6: inside the loop, a step ends the loop exactly when the input is exit
\* or quit in any letter case or the end of input arrives; every other
\* event, and every fetch or connection started from the loop, comes back
\* to Ready.
C6_OnlyExitQuitEofTerminate ==
  [][ /\ pc = "Ready" =>
           (pc' = "Terminated" <=>
              \/ last'.event = "eof"
              \/ TextStep /\ Lower(UserInput') \in {sExit, sQuit})
      /\ pc = "Ready" => pc' \in {"Ready", "Fetching", "Connecting", "Terminated"}
      /\ (InLoop /\ pc /= "Ready") => pc' = "Ready"
    ]_vars

C6_Witness ==
  /\ pc = "Terminated" /\ last.event = "exit"
  /\ last.text = <<" ","Q","u","i","t"," ">>

\* C7: no fetch and no remote-login subprocess call is ever cut short by an
\* interrupt; an interrupt only aborts a pending read of input.
C7_InterruptNeverAbortsFetchOrSsh ==
  call.outcome /= "interrupted" /\ last.outcome /= "interrupted"

\* The label the claim describes for the record at position p.
LabelOf(p, rec) ==
  <<"[">> \o IntToStr(p) \o <<"]", " ">> \o Format(Get(rec, "Name", sNA))
    \o <<" ", "(">> \o Format(Get(rec, "InstanceId", sNA)) \o <<")">>

\* C8: an input equal to the label "[i] Name (InstanceId)" of the current
\* inventory selects the record at position i; the attempt, refused or
\* run, ends in Ready with the inventory and the cache file as before.
C8_SelectionUsesLabelledRecord ==
  [][ /\ (TextStep /\ \E p \in DOMAIN running_instances :
                        UserInput' = LabelOf(p, running_instances[p]))
           => /\ last'.event = "select"
              /\ last'.pos \in DOMAIN running_instances
              /\ UserInput' = LabelOf(last'.pos, running_instances[last'.pos])
              /\ pc' \in {"Ready", "Connecting"}
              /\ pc' = "Connecting" =>
                   conn' = SshArgs(running_instances[last'.pos])
              /\ UNCHANGED <<running_instances, cacheFile>>
      /\ pc = "Connecting" =>
           pc' = "Ready" /\ UNCHANGED <<running_instances, cacheFile>>
    ]_vars

C8_Witness ==
  /\ pc = "Ready" /\ last.event = "select" /\ last.pos = 1
  /\ last.outcome = "nonzero"
  /\ Len(running_instances) = 2

\* C9: the remote-login process is started only when the target address,
\* target user, jump address, jump user, local key path and derived remote
\* key path are all present and the local key file exists; a selected
\* record whose key name is missing, empty or N/A is refused.
C9_SpawnNeedsEverything ==
  /\ pc = "Connecting" =>
       /\ Truthy(conn.target_ip) /\ Truthy(conn.target_user)
       /\ Truthy(conn.jump_host_ip) /\ Truthy(conn.jump_host_user)
       /\ Truthy(conn.local_jump_key_path)
       /\ Truthy(conn.remote_target_key_path)
       /\ localKeyExists
       /\ last.event = "select"
       /\ conn.target_ip = Get(running_instances[last.pos], "PrivateIpAddress", None)
       /\ conn.target_user = Get(running_instances[last.pos], "TargetUser", None)
  /\ (last.event = "select"
        /\ Get(running_instances[last.pos], "KeyName", None) \in {None, <<>>, sNA})
       => pc /= "Connecting" /\ last.outcome = "none"

C9_Witness ==
  /\ pc = "Connecting" /\ localKeyExists
  /\ conn.remote_target_key_path =
       remote_key_dir \o <<"m","y","k","e","y">> \o pem_suffix

\* The coarse guess the claim names: ubuntu, Administrator, else ec2-user,
\* from the platform description ('Linux/UNIX' when the API gives none).
CoarseGuess(raw) ==
  LET platform == Lower(Get(raw, "PlatformDetails", sLinuxUnix))
  IN  IF Contains(sUbuntu, platform) THEN sUbuntu
      ELSE IF Contains(sWindows, platform) THEN sAdministrator
      ELSE sEc2User

\* The images of the answer that describe the instance's image, when the
\* lookup was made and did not fail.
ImagesOf(resp, raw) ==
  IF resp.imgErr \/ "ImageId" \notin DOMAIN raw THEN {}
  ELSE {i \in DOMAIN resp.images : resp.images[i].ImageId = raw.ImageId}

\* keyword occurs in the image's name or in its description, in any case.
InImage(keyword, img) ==
  \/ Contains(keyword, Lower(Get(img, "Name", <<>>)))
  \/ Contains(keyword, Lower(Get(img, "Description", <<>>)))

RefinementKeywords ==
  {sUbuntu, sCentos, sRhel, sFedora, sAmzn2, sAmazonLinux2, sAmazonLinuxAmi,
   sAmznAmi}

C11_AmazonKeywordsMatchEitherField ==
  pc = "FetchDone" /\ ~response.instErr =>
    \A k \in DOMAIN response.instances :
      \A i \in ImagesOf(response, response.instances[k]) :
        LET img == response.images[i]
        IN  (/\ \A w \in {sUbuntu, sCentos, sRhel, sFedora} : ~InImage(w, img)
             /\ \E w \in {sAmzn2, sAmazonLinux2, sAmazonLinuxAmi, sAmznAmi} :
                  InImage(w, img))
              => fetched[k].TargetUser = sEc2User

\* C12: the fetch returns a list whatever the collaborators do: the empty
\* list when the instance query fails, and, when the image lookup fails,
\* one record per running instance, in order, each with the platform guess
\* as TargetUser and N/A as ImageName.
C12_CollaboratorErrorsAreAbsorbed ==
  pc = "FetchDone" =>
    /\ response.instErr => fetched = <<>>
    /\ (~response.instErr /\ response.imgErr) =>
         /\ Len(fetched) = Len(response.instances)
         /\ \A k \in DOMAIN response.instances :
              /\ fetched[k].InstanceId =
                   Get(response.instances[k], "InstanceId", None)
              /\ fetched[k].TargetUser = CoarseGuess(response.instances[k])
              /\ fetched[k].ImageName = sNA

\* The image lookup was made for an image named ubuntu and failed; the
\* Windows instance keeps Administrator.
C12_Witness ==
  /\ pc = "FetchDone" /\ ~response.instErr /\ response.imgErr
  /\ Len(fetched) = 1
  /\ "ImageId" \in DOMAIN response.instances[1]
  /\ response.images /= <<>>
  /\ fetched[1].TargetUser = sAdministrator
  /\ fetched[1].ImageName = sNA

FetchedUsers == {sUbuntu, sAdministrator, sCentos, sFedora, sEc2User}

\* C13: every record of the in-memory inventory, fetched or loaded from the
\* cache file, has a non-empty TargetUser, and a fetched record has one of
\* ubuntu, Administrator, centos, fedora, ec2-user.
C13_TargetUserAlwaysPopulated ==
  /\ \A i \in DOMAIN running_instances :
       Truthy(Get(running_instances[i], "TargetUser", None))
  /\ \A i \in DOMAIN fetched : fetched[i].TargetUser \in FetchedUsers

====
